---- MODULE Spec2Model ----
(***************************************************************************)
(* Model of the strategy-fallback client of src/ai/ai.go: AIFunction,      *)
(* MCPClient.GatherInformation and the three strategies it runs against a  *)
(* gateway whose answers are chosen nondeterministically.                  *)
(*                                                                         *)
(* One step of the model is one HTTP round trip of the client (the request *)
(* it builds, the gateway's answer, and everything the code does with that *)
(* answer up to the next request or the return).                           *)
(***************************************************************************)
EXTENDS Integers, Sequences, FiniteSets, TLC

\* ------------------------------------------------------------------------
\* Bounds of the model
\* ------------------------------------------------------------------------

\* longest "tools" sequence a tools/list result carries
MaxTools == 2

\* most cookies one gateway response sets
MaxCookies == 2

\* most fields of an object handed to the text extractor on its own
MaxFields == 2

\* ------------------------------------------------------------------------
\* Decoded JSON values (Go's interface{} after json.Unmarshal)
\* ------------------------------------------------------------------------

JNull == [t |-> "null"]

JStr(s) == [t |-> "str", s |-> s]

JNum(n) == [t |-> "num", n |-> n]

JBool(b) == [t |-> "bool", b |-> b]

JArr(a) == [t |-> "arr", a |-> a]

JObj(o) == [t |-> "obj", o |-> o]

EmptyObj == JObj(<<>>)

\* whether object value v has key k
Has(v, k) == v.t = "obj" /\ k \in DOMAIN v.o

\* every object key the model uses, in the byte order encoding/json writes
\* map keys in
KeyOrder ==
    << "answer", "code", "content", "error", "foo", "id", "jsonrpc",
       "message", "name", "output", "response", "result", "sessionId",
       "status", "text", "title", "tools" >>

SortedKeys(v) == SelectSeq(KeyOrder, LAMBDA k : k \in DOMAIN v.o)

Quote(s) == "\"" \o s \o "\""

RECURSIVE Pad(_)
Pad(d) == IF d = 0 THEN "" ELSE "  " \o Pad(d - 1)

\* json.MarshalIndent(v, "", "  ")
RECURSIVE Indent(_, _), IndentElems(_, _, _), IndentFields(_, _, _, _)
Indent(v, d) ==
    CASE v.t = "null" -> "null"
      [] v.t = "str" -> Quote(v.s)
      [] v.t = "num" -> ToString(v.n)
      [] v.t = "bool" -> IF v.b THEN "true" ELSE "false"
      [] v.t = "arr" ->
            IF Len(v.a) = 0 THEN "[]"
            ELSE "[\n" \o IndentElems(v.a, 1, d + 1) \o "\n" \o Pad(d) \o "]"
      [] v.t = "obj" ->
            IF DOMAIN v.o = {} THEN "{}"
            ELSE "{\n" \o IndentFields(v, SortedKeys(v), 1, d + 1)
                       \o "\n" \o Pad(d) \o "}"
IndentElems(a, i, d) ==
    Pad(d) \o Indent(a[i], d)
           \o (IF i < Len(a) THEN ",\n" \o IndentElems(a, i + 1, d) ELSE "")
IndentFields(v, ks, i, d) ==
    Pad(d) \o Quote(ks[i]) \o ": " \o Indent(v.o[ks[i]], d)
           \o (IF i < Len(ks) THEN ",\n" \o IndentFields(v, ks, i + 1, d) ELSE "")

MarshalIndent(v) == Indent(v, 0)

\* the compact JSON text of a value, as the gateway writes it on the wire
RECURSIVE Compact(_), CompactElems(_, _), CompactFields(_, _, _)
Compact(v) ==
    CASE v.t = "null" -> "null"
      [] v.t = "str" -> Quote(v.s)
      [] v.t = "num" -> ToString(v.n)
      [] v.t = "bool" -> IF v.b THEN "true" ELSE "false"
      [] v.t = "arr" ->
            IF Len(v.a) = 0 THEN "[]" ELSE "[" \o CompactElems(v.a, 1) \o "]"
      [] v.t = "obj" ->
            IF DOMAIN v.o = {} THEN "{}"
            ELSE "{" \o CompactFields(v, SortedKeys(v), 1) \o "}"
CompactElems(a, i) ==
    Compact(a[i]) \o (IF i < Len(a) THEN "," \o CompactElems(a, i + 1) ELSE "")
CompactFields(v, ks, i) ==
    Quote(ks[i]) \o ":" \o Compact(v.o[ks[i]])
                 \o (IF i < Len(ks) THEN "," \o CompactFields(v, ks, i + 1) ELSE "")

\* ------------------------------------------------------------------------
\* What the gateway can answer
\* ------------------------------------------------------------------------

RECURSIVE SeqsUpTo(_, _)
SeqsUpTo(S, n) ==
    IF n = 0 THEN { <<>> }
    ELSE SeqsUpTo(S, n - 1) \cup [1..n -> S]

Tool(name) == JObj("name" :> JStr(name))

\* tool descriptors: two well-formed ones, one that is no structured value,
\* one without a "name", one whose "name" is no string
ToolDescs ==
    { Tool("weather"), Tool("search"), JNum(42),
      JObj("title" :> JStr("untitled")), JObj("name" :> JNum(7)) }

ToolLists == SeqsUpTo(ToolDescs, MaxTools)

AnswerObj == JObj("answer" :> JStr("Sunny, 72F"))

NestedObj == JObj("content" :> JArr(<< JObj("text" :> JStr("Rainy")) >>))

NestedEmptyObj == JObj("content" :> JArr(<< JObj("text" :> JStr("")) >>))

\* answers a chat endpoint or a tool may give
Payloads ==
    { AnswerObj, NestedObj, NestedEmptyObj,
      JObj("answer" :> JStr("A1") @@ "text" :> JStr("T1")),
      JObj("answer" :> JStr("") @@ "message" :> JStr("late")),
      JObj("text" :> JNum(5) @@ "result" :> JStr("R1")),
      JObj("content" :> JStr("C1")),
      JObj("output" :> JStr("O1") @@ "response" :> JStr("P1")),
      JObj("foo" :> JNum(1)),
      EmptyObj, JNull, JStr("plain"), JNum(7), JArr(<< JNum(1) >>) }

SessionValues ==
    { JObj("sessionId" :> JStr("s1") @@ "status" :> JStr("ok")),
      JObj("status" :> JStr("ok")),
      JObj("sessionId" :> JNum(7)) }

Envelope(result) ==
    JObj("jsonrpc" :> JStr("2.0") @@ "id" :> JNum(1) @@ "result" :> result)

ErrorObj == JObj("code" :> JNum(-32601) @@ "message" :> JStr("method not found"))

\* what a JSON-RPC result may be: an initialize result, tools/list results
\* (well-formed and not), tools/call results
RpcResults ==
    { JObj("tools" :> JArr(l)) : l \in ToolLists }
        \cup { JObj("tools" :> JStr("none")) }
        \cup Payloads

Envelopes ==
    { Envelope(r) : r \in RpcResults }
        \cup { JObj("jsonrpc" :> JStr("2.0") @@ "id" :> JNum(1) @@ "error" :> ErrorObj),
               JObj("id" :> JNum(1) @@ "error" :> ErrorObj @@ "result" :> AnswerObj),
               JObj("id" :> JNum(1) @@ "error" :> JNull @@ "result" :> AnswerObj),
               JObj("id" :> JNum(1) @@ "error" :> JStr("boom")),
               JObj("id" :> JStr("one") @@ "result" :> AnswerObj),
               JObj("jsonrpc" :> JStr("2.0") @@ "id" :> JNum(1)) }

WireValues == Payloads \cup SessionValues \cup Envelopes

\* bodies that are no JSON text
NonJsonBodies == { "upstream ok", "" }

JsonBodies == { Compact(v) : v \in WireValues }

\* json.Unmarshal of a body into an interface{}: the value whose JSON text the
\* body is, or a syntax error
ParseTable == [b \in JsonBodies |-> CHOOSE v \in WireValues : Compact(v) = b]

Unmarshal(body) ==
    IF body \in JsonBodies
    THEN [ok |-> TRUE, v |-> ParseTable[body]]
    ELSE [ok |-> FALSE, v |-> JNull]

\* a field of a struct target accepts JSON null (left at its zero value) or
\* a value of its own kind
FieldOk(v, k, kind) == Has(v, k) => v.o[k].t \in { kind, "null" }

\* whether a parsed body fits a SessionResponse: an object (or null) whose
\* "sessionId" and "status", when present, are strings
FitsSessionResponse(p) ==
    /\ p.ok
    /\ p.v.t \in { "obj", "null" }
    /\ FieldOk(p.v, "sessionId", "str")
    /\ FieldOk(p.v, "status", "str")

DecodeSession(p) ==
    [ok |-> FitsSessionResponse(p),
     SessionID |-> IF FitsSessionResponse(p) /\ Has(p.v, "sessionId")
                                             /\ p.v.o["sessionId"].t = "str"
                   THEN p.v.o["sessionId"].s ELSE ""]

\* json.Unmarshal(body, &sessionResp): SessionID is "" unless the body is an
\* object with a string "sessionId"
UnmarshalSession(body) == DecodeSession(Unmarshal(body))

\* a decoder that takes any JSON value for the map
DecodeMap_Any(p) == [ok |-> p.ok, v |-> p.v]

DecodeMap(p) == [ok |-> p.ok /\ p.v.t \in { "obj", "null" }, v |-> p.v]

\* json.Unmarshal(body, &result) with result a map[string]interface{}
UnmarshalMap(body) == DecodeMap(Unmarshal(body))

\* whether a parsed body fits an MCPResponse: an object (or null) whose
\* "jsonrpc", "id" and "error", when present, have the kinds of the fields
FitsMCPResponse(p) ==
    /\ p.ok
    /\ p.v.t \in { "obj", "null" }
    /\ FieldOk(p.v, "jsonrpc", "str")
    /\ FieldOk(p.v, "id", "num")
    /\ FieldOk(p.v, "error", "obj")
    /\ (Has(p.v, "error") /\ p.v.o["error"].t = "obj") =>
          /\ FieldOk(p.v.o["error"], "code", "num")
          /\ FieldOk(p.v.o["error"], "message", "str")

\* an MCPResponse with Error e (JNull for nil) and Result result
MCPResponse(ok, e, result) ==
    [ok |-> ok,
     hasError |-> e.t = "obj",
     Code |-> IF Has(e, "code") /\ e.o["code"].t = "num" THEN e.o["code"].n ELSE 0,
     Message |-> IF Has(e, "message") /\ e.o["message"].t = "str"
                 THEN e.o["message"].s ELSE "",
     Result |-> result]

NilResponse == MCPResponse(FALSE, JNull, JNull)

DecodeMCPResponse(p) ==
    IF FitsMCPResponse(p)
    THEN MCPResponse(TRUE,
                     IF Has(p.v, "error") THEN p.v.o["error"] ELSE JNull,
                     IF Has(p.v, "result") THEN p.v.o["result"] ELSE JNull)
    ELSE NilResponse

\* json.Unmarshal(body, &mcpResponse): Error is nil unless the body carries
\* an "error" object; Result is the decoded "result" (nil when absent)
UnmarshalMCPResponse(body) == DecodeMCPResponse(Unmarshal(body))

\* an HTTP response as the client reads it: err is the transport error of
\* Client.Do ("" when the call returned a response)
Resp(status, body, xsid, cookies) ==
    [err |-> "", status |-> status, body |-> body, xsid |-> xsid, cookies |-> cookies]

TransportError ==
    [err |-> "connection refused", status |-> 0, body |-> "", xsid |-> "",
     cookies |-> <<>>]

NoResp == [err |-> "none", status |-> 0, body |-> "", xsid |-> "", cookies |-> <<>>]

Cookie(name, value) == [Name |-> name, Value |-> value]

Cookies ==
    { Cookie("session_id", "s3"), Cookie("sessionId", ""), Cookie("theme", "dark") }

CookieLists == SeqsUpTo(Cookies, MaxCookies)

SessionHeaders == { "", "s2" }

DirectBodies == { Compact(v) : v \in Payloads } \cup NonJsonBodies

\* answers to a direct-API POST
DirectResponses ==
    { TransportError,
      Resp(404, "not found", "", <<>>),
      Resp(500, Compact(AnswerObj), "", <<>>),
      Resp(201, Compact(AnswerObj), "", <<>>) }
        \cup { Resp(200, b, "", <<>>) : b \in DirectBodies }

SessionBodies == { Compact(v) : v \in SessionValues } \cup { "upstream ok" }

\* answers to a POST to a session endpoint
SessionResponses ==
    { TransportError,
      Resp(404, "not found", "", <<>>),
      Resp(404, Compact(CHOOSE v \in SessionValues : Has(v, "status") /\ Has(v, "sessionId")),
           "s2", << Cookie("session_id", "s3") >>) }
        \cup { Resp(st, b, h, cs) :
                 st \in { 200, 201 }, b \in SessionBodies, h \in SessionHeaders,
                 cs \in CookieLists }

\* answers to the POST to /initialize
InitResponses ==
    { TransportError }
        \cup { Resp(st, "upstream ok", h, cs) :
                 st \in { 200, 404 }, h \in SessionHeaders, cs \in CookieLists }

\* answers to a JSON-RPC POST to the base URL
RpcResponses ==
    { TransportError,
      Resp(500, "internal error", "", <<>>),
      Resp(404, Compact(Envelope(AnswerObj)), "", <<>>),
      Resp(200, "upstream ok", "", <<>>),
      Resp(200, Compact(AnswerObj), "", <<>>),
      Resp(200, Compact(JArr(<< JNum(1) >>)), "", <<>>) }
        \cup { Resp(200, Compact(e), "", <<>>) : e \in Envelopes }

\* answers to a GET probe
GetResponses ==
    { TransportError,
      Resp(404, "not found", "", <<>>),
      Resp(201, Compact(AnswerObj), "", <<>>),
      Resp(200, Compact(AnswerObj), "", <<>>),
      Resp(200, Compact(NestedObj), "", <<>>),
      Resp(200, "upstream ok", "", <<>>),
      Resp(200, "", "", <<>>) }

\* the arguments AIFunction is called with
Prompts == { "", "weather in NY" }

Models == { "", "mistral" }

\* ------------------------------------------------------------------------
\* The client
\* ------------------------------------------------------------------------

VARIABLES
    pc,             \* the function whose HTTP request comes next
                    \* ("tryDirectAPI", "CreateSession", "initializeWithSession",
                    \* "Initialize", "ListTools", "CallTool",
                    \* "tryAlternativeEndpoints"), or "idle" (no call yet),
                    \* "done" (AIFunction returned), "crashed" (the process
                    \* died of a panic)
    idx,            \* index of the endpoint the current loop is at
    prompt, model,  \* the arguments of the running AIFunction call
    constructed,    \* whether the call has constructed its MCPClient
    nextID,         \* MCPClient.nextID
    sessionID,      \* MCPClient.sessionID
    reqs,           \* the HTTP requests the call has issued, in order
    lastResp,       \* the gateway's answer to the last of them
    toolName,       \* tryMCPFlow's toolName
    sessionErr,     \* what CreateSession returned: "none" (not run), "" (nil)
                    \* or the error
    stages,         \* what each strategy of GatherInformation returned
    outcome,        \* what AIFunction returned
    extractArg,     \* the value extractTextFromResult is called with on its own
    extractRet      \* what that call returned

vars ==
    << pc, idx, prompt, model, constructed, nextID, sessionID, reqs, lastResp,
       toolName, sessionErr, stages, outcome, extractArg, extractRet >>

extractVars == << extractArg, extractRet >>

\* a (string, error) return value; "panic" is a run-time panic unwinding
\* through the caller
None == [kind |-> "none", val |-> ""]

Ok(text) == [kind |-> "ok", val |-> text]

Err(msg) == [kind |-> "err", val |-> msg]

Panic(msg) == [kind |-> "panic", val |-> msg]

NoStages == [direct |-> None, mcp |-> None, alt |-> None]

sessionEndpoints == << "/session", "/api/session", "/sessions", "/create-session" >>

directEndpoints ==
    << "/api/chat", "/chat", "/api/completion", "/completion", "/api/generate",
       "/generate" >>

\* url.Values.Encode(): the keys sorted, the values escaped (the arguments of
\* the model hold no character that is escaped but the space)
QueryEscape(s) == IF s = "weather in NY" THEN "weather+in+NY" ELSE s

Encode(p, m) ==
    "model=" \o QueryEscape(m) \o "&prompt=" \o QueryEscape(p) \o "&q=" \o QueryEscape(p)

alternativeEndpoints(p, m) ==
    << "/?" \o Encode(p, m), "/api?" \o Encode(p, m), "/query?" \o Encode(p, m) >>

\* the priority order with its first two fields exchanged
textFields_Swapped ==
    << "response", "text", "answer", "result", "output", "message", "content" >>

textFields == << "text", "response", "answer", "result", "output", "message", "content" >>

initParams ==
    JObj("protocolVersion" :> JStr("2024-11-05")
         @@ "capabilities" :> JObj("tools" :> EmptyObj)
         @@ "clientInfo" :> JObj("name" :> JStr("golang-mcp-client")
                                 @@ "version" :> JStr("1.0.0")))

\* an HTTP request: its place in the code, verb, path under BaseURL, the two
\* session headers ("" when not set) and its decoded body
Request(kind, verb, path, xsid, sid, body) ==
    [kind |-> kind, verb |-> verb, path |-> path, XSessionID |-> xsid,
     SessionID |-> sid, body |-> body]

MCPRequest(id, method, params) ==
    JObj("jsonrpc" :> JStr("2.0") @@ "id" :> JNum(id) @@ "method" :> JStr(method)
         @@ "params" :> params)

\* the index of the first non-empty string field of textFields from i on,
\* 0 when there is none
RECURSIVE FirstTextField(_, _)
FirstTextField(v, i) ==
    IF i > Len(textFields) THEN 0
    ELSE IF Has(v, textFields[i]) /\ v.o[textFields[i]].t = "str"
                                  /\ v.o[textFields[i]].s # ""
         THEN i
         ELSE FirstTextField(v, i + 1)

\* whether "content" holds a non-empty sequence whose first element is a
\* structured value with a string "text"
HasNestedText(v) ==
    /\ Has(v, "content")
    /\ v.o["content"].t = "arr"
    /\ Len(v.o["content"].a) > 0
    /\ Has(v.o["content"].a[1], "text")
    /\ v.o["content"].a[1].o["text"].t = "str"

\* extractTextFromResult with an empty string where the indented JSON belongs
TextAt_NoFallback(result, i) ==
    IF i # 0
    THEN result.o[textFields[i]].s
    ELSE IF HasNestedText(result)
         THEN result.o["content"].a[1].o["text"].s
         ELSE ""

\* the text extractTextFromResult finds at field number i of textFields (0:
\* none), else under "content", else the indented JSON of the whole value
TextAt(result, i) ==
    IF i # 0
    THEN result.o[textFields[i]].s
    ELSE IF HasNestedText(result)
         THEN result.o["content"].a[1].o["text"].s
         ELSE MarshalIndent(result)

extractTextFromResult(result) == TextAt(result, FirstTextField(result, 1))

\* getNextID without the increment
getNextID_NoIncrement == [id |-> nextID, nextID |-> nextID]

getNextID == [id |-> nextID, nextID |-> nextID + 1]

\* what sendRequest returns for a decoded HTTP 200 body
Decoded(u) ==
    IF u.ok
    THEN [err |-> "", response |-> u]
    ELSE [err |-> "failed to unmarshal response: invalid JSON", response |-> NilResponse]

\* sendRequest without the check of the status code
sendRequest_AnyStatus(r) ==
    IF r.err # ""
    THEN [err |-> "failed to send request: " \o r.err, response |-> NilResponse]
    ELSE Decoded(UnmarshalMCPResponse(r.body))

\* sendRequest from the gateway's answer on: the decoded envelope or the error
sendRequest(r) ==
    IF r.err # ""
    THEN [err |-> "failed to send request: " \o r.err, response |-> NilResponse]
    ELSE IF r.status # 200
         THEN [err |-> "HTTP error " \o ToString(r.status) \o ": " \o r.body,
               response |-> NilResponse]
         ELSE Decoded(UnmarshalMCPResponse(r.body))

\* the headers sendRequest and tryDirectAPI set
RpcSessionHeaders == [XSessionID |-> sessionID, SessionID |-> sessionID]

\* the headers tryAlternativeEndpoints sets
GetSessionHeaders == [XSessionID |-> sessionID, SessionID |-> ""]

\* the first cookie of the response named session_id or sessionId: its index,
\* 0 when there is none
RECURSIVE SessionCookie(_, _)
SessionCookie(cs, i) ==
    IF i > Len(cs) THEN 0
    ELSE IF cs[i].Name = "session_id" \/ cs[i].Name = "sessionId"
         THEN i
         ELSE SessionCookie(cs, i + 1)

\* the header and cookie checks in the other order: the cookie first
SessionFromHeaders_CookieFirst(r, c) ==
    IF c # 0
    THEN [found |-> TRUE, id |-> r.cookies[c].Value]
    ELSE IF r.xsid # ""
         THEN [found |-> TRUE, id |-> r.xsid]
         ELSE [found |-> FALSE, id |-> ""]

\* the token a response carries in its X-Session-ID header, else in its first
\* session cookie
SessionFromHeaders(r, c) ==
    IF r.xsid # ""
    THEN [found |-> TRUE, id |-> r.xsid]
    ELSE IF c # 0
         THEN [found |-> TRUE, id |-> r.cookies[c].Value]
         ELSE [found |-> FALSE, id |-> ""]

\* the token of a 200/201 answer whose body decoded to u
SessionFromBody(r, u) ==
    IF u.ok /\ u.SessionID # ""
    THEN [found |-> TRUE, id |-> u.SessionID]
    ELSE SessionFromHeaders(r, SessionCookie(r.cookies, 1))

\* the token CreateSession takes from the answer of a session endpoint
SessionFromEndpoint(r) ==
    IF r.err # "" \/ r.status \notin { 200, 201 }
    THEN [found |-> FALSE, id |-> ""]
    ELSE SessionFromBody(r, UnmarshalSession(r.body))

\* the token initializeWithSession takes from the answer of /initialize
SessionFromInitialize(r) == SessionFromHeaders(r, SessionCookie(r.cookies, 1))

\* tryDirectAPI that returns the body whatever it decoded to
DirectText_Raw(body, ok, text) == body

\* the string tryDirectAPI returns for an HTTP 200 body that decoded to u
\* (text: what extractTextFromResult makes of it)
DirectText(body, ok, text) == IF ok /\ text # "" THEN text ELSE body

DirectDecoded(body, u) == DirectText(body, u.ok, extractTextFromResult(u.v))

DirectResult(body) == DirectDecoded(body, UnmarshalMap(body))

\* the program before AIFunction is called: no client, nothing sent
Idle ==
    /\ pc = "idle"
    /\ idx = 0
    /\ prompt = ""
    /\ model = ""
    /\ constructed = FALSE
    /\ nextID = 0
    /\ sessionID = ""
    /\ reqs = <<>>
    /\ lastResp = NoResp
    /\ toolName = ""
    /\ sessionErr = "none"
    /\ stages = NoStages
    /\ outcome = None

Init ==
    /\ Idle
    /\ extractArg = JNull
    /\ extractRet = None

\* GatherInformation with approaches 2 and 3 in the wrong order: the GET probe
\* right after the direct API, the protocol flow never
GatherInformation_GetFirst(stage, res) ==
    CASE res.kind = "panic" -> [pc |-> "crashed", outcome |-> res]
      [] res.kind = "ok" -> [pc |-> "done", outcome |-> res]
      [] res.kind = "err" /\ stage = "direct" -> [pc |-> "tryAlternativeEndpoints", outcome |-> None]
      [] res.kind = "err" /\ stage = "mcp" -> [pc |-> "done", outcome |-> res]
      [] res.kind = "err" /\ stage = "alt" -> [pc |-> "done", outcome |-> res]

\* GatherInformation that does not return when the direct API succeeded
GatherInformation_NoReturn(stage, res) ==
    CASE res.kind = "panic" -> [pc |-> "crashed", outcome |-> res]
      [] stage = "direct" -> [pc |-> "CreateSession", outcome |-> None]
      [] res.kind = "ok" -> [pc |-> "done", outcome |-> res]
      [] res.kind = "err" /\ stage = "mcp" -> [pc |-> "tryAlternativeEndpoints", outcome |-> None]
      [] res.kind = "err" /\ stage = "alt" -> [pc |-> "done", outcome |-> res]

\* GatherInformation from the return of one of its strategies on: where the
\* call goes next and what it has returned
GatherInformation(stage, res) ==
    CASE res.kind = "panic" -> [pc |-> "crashed", outcome |-> res]
      [] res.kind = "ok" -> [pc |-> "done", outcome |-> res]
      [] res.kind = "err" /\ stage = "direct" -> [pc |-> "CreateSession", outcome |-> None]
      [] res.kind = "err" /\ stage = "mcp" -> [pc |-> "tryAlternativeEndpoints", outcome |-> None]
      [] res.kind = "err" /\ stage = "alt" -> [pc |-> "done", outcome |-> res]

\* strategy `stage` returns res to GatherInformation
Return(stage, res) ==
    /\ stages' = [stages EXCEPT ![stage] = res]
    /\ \E g \in { GatherInformation(stage, res) } :
          /\ pc' = g.pc
          /\ outcome' = g.outcome
    /\ idx' = 1

\* the call goes on to the request of function f
Goto(f, i) ==
    /\ pc' = f
    /\ idx' = i
    /\ UNCHANGED << stages, outcome >>

\* AIFunction without the check of the model
AIFunction_NoModelCheck(p, m) ==
    /\ pc \in { "idle", "done" }
    /\ UNCHANGED extractVars
    /\ prompt' = p
    /\ model' = m
    /\ reqs' = <<>>
    /\ lastResp' = NoResp
    /\ toolName' = ""
    /\ sessionErr' = "none"
    /\ stages' = NoStages
    /\ sessionID' = ""
    /\ IF p = ""
       THEN /\ outcome' = Err("prompt cannot be empty")
            /\ pc' = "done"
            /\ constructed' = FALSE
            /\ nextID' = 0
            /\ idx' = 0
       ELSE /\ outcome' = None
            /\ pc' = "tryDirectAPI"
            /\ constructed' = TRUE
            /\ nextID' = 1
            /\ idx' = 1

\* AIFunction on the client of the call before, its token included
AIFunction_ReusesClient(p, m) ==
    /\ pc \in { "idle", "done" }
    /\ UNCHANGED extractVars
    /\ prompt' = p
    /\ model' = m
    /\ reqs' = <<>>
    /\ lastResp' = NoResp
    /\ toolName' = ""
    /\ sessionErr' = "none"
    /\ stages' = NoStages
    /\ UNCHANGED sessionID
    /\ IF p = "" \/ m = ""
       THEN /\ outcome' = IF p = "" THEN Err("prompt cannot be empty")
                                    ELSE Err("model cannot be empty")
            /\ pc' = "done"
            /\ constructed' = FALSE
            /\ nextID' = 0
            /\ idx' = 0
       ELSE /\ outcome' = None
            /\ pc' = "tryDirectAPI"
            /\ constructed' = TRUE
            /\ nextID' = 1
            /\ idx' = 1

\* AIFunction(p, m) up to the first request of GatherInformation
AIFunction(p, m) ==
    /\ pc \in { "idle", "done" }
    /\ UNCHANGED extractVars
    /\ prompt' = p
    /\ model' = m
    /\ reqs' = <<>>
    /\ lastResp' = NoResp
    /\ toolName' = ""
    /\ sessionErr' = "none"
    /\ stages' = NoStages
    /\ sessionID' = ""
    /\ IF p = "" \/ m = ""
       THEN /\ outcome' = IF p = "" THEN Err("prompt cannot be empty")
                                    ELSE Err("model cannot be empty")
            /\ pc' = "done"
            /\ constructed' = FALSE
            /\ nextID' = 0
            /\ idx' = 0
       ELSE /\ outcome' = None
            /\ pc' = "tryDirectAPI"
            /\ constructed' = TRUE
            /\ nextID' = 1
            /\ idx' = 1

directRequest ==
    Request("direct", "POST", directEndpoints[idx], RpcSessionHeaders.XSessionID,
            RpcSessionHeaders.SessionID,
            JObj("prompt" :> JStr(prompt) @@ "model" :> JStr(model)
                 @@ "query" :> JStr(prompt) @@ "input" :> JStr(prompt)))

\* one pass of the loop of tryDirectAPI
tryDirectAPI ==
    /\ pc = "tryDirectAPI"
    /\ UNCHANGED extractVars
    /\ \E r \in DirectResponses :
          /\ reqs' = Append(reqs, directRequest)
          /\ lastResp' = r
          /\ IF r.err = "" /\ r.status = 200
             THEN Return("direct", Ok(DirectResult(r.body)))
             ELSE IF idx < Len(directEndpoints)
                  THEN Goto(pc, idx + 1)
                  ELSE Return("direct", Err("direct API calls failed"))
    /\ UNCHANGED << prompt, model, constructed, nextID, sessionID, toolName, sessionErr >>

\* CreateSession without the return after a token is found: the loop goes on
\* to the next endpoint
CreateSession_KeepsGoing ==
    /\ pc = "CreateSession"
    /\ UNCHANGED extractVars
    /\ \E r \in SessionResponses :
          /\ reqs' = Append(reqs, Request("session", "POST", sessionEndpoints[idx],
                                          "", "", EmptyObj))
          /\ lastResp' = r
          /\ \E s \in { SessionFromEndpoint(r) } :
                /\ IF s.found
                   THEN sessionID' = s.id /\ sessionErr' = ""
                   ELSE UNCHANGED << sessionID, sessionErr >>
                /\ IF idx < Len(sessionEndpoints)
                   THEN Goto(pc, idx + 1)
                   ELSE Goto("Initialize", 1)
    /\ UNCHANGED << prompt, model, constructed, nextID, toolName >>

\* one pass of the loop of CreateSession
CreateSession ==
    /\ pc = "CreateSession"
    /\ UNCHANGED extractVars
    /\ \E r \in SessionResponses :
          /\ reqs' = Append(reqs, Request("session", "POST", sessionEndpoints[idx],
                                          "", "", EmptyObj))
          /\ lastResp' = r
          /\ \E s \in { SessionFromEndpoint(r) } :
             IF s.found
             THEN /\ sessionID' = s.id
                  /\ sessionErr' = ""
                  /\ Goto("Initialize", 1)
             ELSE /\ UNCHANGED << sessionID, sessionErr >>
                  /\ IF idx < Len(sessionEndpoints)
                     THEN Goto(pc, idx + 1)
                     ELSE Goto("initializeWithSession", 1)
    /\ UNCHANGED << prompt, model, constructed, nextID, toolName >>

\* initializeWithSession, called at the end of CreateSession
initializeWithSession ==
    /\ pc = "initializeWithSession"
    /\ UNCHANGED extractVars
    /\ \E r \in InitResponses :
          /\ reqs' = Append(reqs, Request("initSession", "POST", "/initialize",
                                          "", "", initParams))
          /\ lastResp' = r
          /\ IF r.err # ""
             THEN /\ sessionErr' = "failed to send initialization request: " \o r.err
                  /\ UNCHANGED sessionID
             ELSE \E s \in { SessionFromInitialize(r) } :
                     IF s.found
                     THEN /\ sessionID' = s.id
                          /\ sessionErr' = ""
                     ELSE /\ sessionErr' = "could not establish session"
                          /\ UNCHANGED sessionID
    /\ Goto("Initialize", 1)
    /\ UNCHANGED << prompt, model, constructed, nextID, toolName >>

rpcRequest(method, params) ==
    Request("rpc", "POST", "", RpcSessionHeaders.XSessionID, RpcSessionHeaders.SessionID,
            MCPRequest(getNextID.id, method, params))

\* the error Initialize returns for the gateway's answer ("" for nil)
InitializeErrorOf(s) ==
    IF s.err # ""
    THEN s.err
    ELSE IF s.response.hasError
         THEN "initialization failed: " \o s.response.Message
         ELSE ""

InitializeError(r) == InitializeErrorOf(sendRequest(r))

\* Initialize that returns the error of CreateSession instead of logging it
Initialize_AbortsWithoutSession ==
    /\ pc = "Initialize"
    /\ UNCHANGED extractVars
    /\ IF sessionErr # ""
       THEN /\ Return("mcp", Err("failed to initialize MCP connection: " \o sessionErr))
            /\ UNCHANGED << reqs, nextID, lastResp >>
       ELSE \E r \in RpcResponses :
               /\ reqs' = Append(reqs, rpcRequest("initialize", initParams))
               /\ nextID' = getNextID.nextID
               /\ lastResp' = r
               /\ \E e \in { InitializeError(r) } :
                     IF e # ""
                     THEN Return("mcp", Err("failed to initialize MCP connection: " \o e))
                     ELSE Goto("ListTools", 1)
    /\ UNCHANGED << prompt, model, constructed, sessionID, toolName, sessionErr >>

\* Initialize after CreateSession has returned
Initialize ==
    /\ pc = "Initialize"
    /\ UNCHANGED extractVars
    /\ \E r \in RpcResponses :
          /\ reqs' = Append(reqs, rpcRequest("initialize", initParams))
          /\ nextID' = getNextID.nextID
          /\ lastResp' = r
          /\ \E e \in { InitializeError(r) } :
                IF e # ""
                THEN Return("mcp", Err("failed to initialize MCP connection: " \o e))
                ELSE Goto("ListTools", 1)
    /\ UNCHANGED << prompt, model, constructed, sessionID, toolName, sessionErr >>

\* what ListTools returns for the gateway's answer
ListToolsOf(s) ==
    IF s.err # ""
    THEN [err |-> s.err, tools |-> <<>>]
    ELSE IF s.response.hasError
         THEN [err |-> "MCP error " \o ToString(s.response.Code) \o ": "
                          \o s.response.Message,
               tools |-> <<>>]
         ELSE IF Has(s.response.Result, "tools")
                    /\ s.response.Result.o["tools"].t = "arr"
              THEN [err |-> "", tools |-> s.response.Result.o["tools"].a]
              ELSE [err |-> "unexpected response format", tools |-> <<>>]

ListToolsResult(r) == ListToolsOf(sendRequest(r))

\* tryMCPFlow taking the last tool of the list instead of tools[0]
PickTool_Last(l) ==
    IF l.err # ""
    THEN [res |-> Err("failed to list tools: " \o l.err), toolName |-> ""]
    ELSE IF Len(l.tools) = 0
         THEN [res |-> Err("no tools available"), toolName |-> ""]
         ELSE IF l.tools[1].t # "obj"
              THEN [res |-> Panic("interface conversion: not map[string]interface {}"),
                    toolName |-> ""]
              ELSE IF ~(Has(l.tools[1], "name") /\ l.tools[1].o["name"].t = "str")
                   THEN [res |-> Panic("interface conversion: not string"),
                         toolName |-> ""]
                   ELSE IF Has(l.tools[Len(l.tools)], "name")
                              /\ l.tools[Len(l.tools)].o["name"].t = "str"
                        THEN [res |-> None,
                              toolName |-> l.tools[Len(l.tools)].o["name"].s]
                        ELSE [res |-> None, toolName |-> ""]

\* tryMCPFlow from the return of ListTools to the call of CallTool: the error
\* or panic it ends with (None when it goes on) and the tool it picks
PickTool(l) ==
    IF l.err # ""
    THEN [res |-> Err("failed to list tools: " \o l.err), toolName |-> ""]
    ELSE IF Len(l.tools) = 0
         THEN [res |-> Err("no tools available"), toolName |-> ""]
         ELSE IF l.tools[1].t # "obj"
              THEN [res |-> Panic("interface conversion: not map[string]interface {}"),
                    toolName |-> ""]
              ELSE IF ~(Has(l.tools[1], "name") /\ l.tools[1].o["name"].t = "str")
                   THEN [res |-> Panic("interface conversion: not string"),
                         toolName |-> ""]
                   ELSE [res |-> None, toolName |-> l.tools[1].o["name"].s]

\* ListTools and the choice of the tool
ListTools ==
    /\ pc = "ListTools"
    /\ UNCHANGED extractVars
    /\ \E r \in RpcResponses :
          /\ reqs' = Append(reqs, rpcRequest("tools/list", EmptyObj))
          /\ nextID' = getNextID.nextID
          /\ lastResp' = r
          /\ \E t \in { PickTool(ListToolsResult(r)) } :
                /\ toolName' = t.toolName
                /\ IF t.res.kind # "none"
                   THEN Return("mcp", t.res)
                   ELSE Goto("CallTool", 1)
    /\ UNCHANGED << prompt, model, constructed, sessionID, sessionErr >>

\* what tryMCPFlow returns for the gateway's answer to tools/call
CallToolOf(s) ==
    IF s.err # ""
    THEN Err(s.err)
    ELSE IF s.response.hasError
         THEN Err("MCP error " \o ToString(s.response.Code) \o ": "
                      \o s.response.Message)
         ELSE Ok(extractTextFromResult(s.response.Result))

CallToolResult(r) == CallToolOf(sendRequest(r))

\* CallTool and the return of tryMCPFlow
CallTool ==
    /\ pc = "CallTool"
    /\ UNCHANGED extractVars
    /\ \E r \in RpcResponses :
          /\ reqs' = Append(reqs,
                            rpcRequest("tools/call",
                                       JObj("name" :> JStr(toolName)
                                            @@ "arguments" :>
                                                JObj("prompt" :> JStr(prompt)
                                                     @@ "model" :> JStr(model)))))
          /\ nextID' = getNextID.nextID
          /\ lastResp' = r
          /\ Return("mcp", CallToolResult(r))
    /\ UNCHANGED << prompt, model, constructed, sessionID, toolName, sessionErr >>

\* one pass of the loop of tryAlternativeEndpoints
tryAlternativeEndpoints ==
    /\ pc = "tryAlternativeEndpoints"
    /\ UNCHANGED extractVars
    /\ \E r \in GetResponses :
          /\ reqs' = Append(reqs, Request("get", "GET",
                                          alternativeEndpoints(prompt, model)[idx],
                                          GetSessionHeaders.XSessionID,
                                          GetSessionHeaders.SessionID, JNull))
          /\ lastResp' = r
          /\ IF r.err = "" /\ r.status = 200
             THEN Return("alt", Ok(r.body))
             ELSE IF idx < Len(alternativeEndpoints(prompt, model))
                  THEN Goto(pc, idx + 1)
                  ELSE Return("alt", Err("all approaches failed"))
    /\ UNCHANGED << prompt, model, constructed, nextID, sessionID, toolName, sessionErr >>

Next ==
    \/ \E p \in Prompts, m \in Models : AIFunction(p, m)
    \/ tryDirectAPI
    \/ CreateSession
    \/ initializeWithSession
    \/ Initialize
    \/ ListTools
    \/ CallTool
    \/ tryAlternativeEndpoints

Spec == Init /\ [][Next]_vars

\* ------------------------------------------------------------------------
\* The text extractor on its own
\* ------------------------------------------------------------------------

\* the keys of the objects the extractor is given: the seven it looks for and
\* one it does not
ExtractFields == { textFields[i] : i \in 1..Len(textFields) } \cup { "foo" }

\* what a field may hold: strings (empty and not), a number, and sequences
\* with and without a first element that holds a "text"
FieldValues ==
    { JStr("v1"), JStr("v2"), JStr(""), JNum(5), JArr(<<>>), JArr(<< JNum(1) >>),
      JArr(<< JObj("text" :> JStr("Rainy")), JObj("text" :> JStr("late")) >>),
      JArr(<< JObj("text" :> JStr("")) >>),
      JArr(<< JObj("text" :> JNum(5)) >>) }

\* the decoded values the extractor is given: objects of at most MaxFields
\* fields, and values that are no objects
ExtractInputs ==
    { JObj(f) : f \in UNION { [K -> FieldValues] :
                                K \in { S \in SUBSET ExtractFields :
                                           Cardinality(S) <= MaxFields } } }
        \cup { JNull, JNum(7), JStr("plain"), JBool(TRUE), JBool(FALSE), JArr(<<>>),
               JArr(<< JNum(1) >>), JArr(<< JObj("text" :> JStr("Rainy")) >>) }

ExtractInit ==
    /\ Idle
    /\ extractArg \in ExtractInputs
    /\ extractRet = None

\* a call extractTextFromResult(extractArg)
Extract ==
    /\ extractRet = None
    /\ extractRet' = Ok(extractTextFromResult(extractArg))
    /\ UNCHANGED << pc, idx, prompt, model, constructed, nextID, sessionID, reqs,
                    lastResp, toolName, sessionErr, stages, outcome, extractArg >>

ExtractNext == Extract

ExtractSpec == ExtractInit /\ [][ExtractNext]_vars

TypeOK ==
    /\ pc \in { "idle", "tryDirectAPI", "CreateSession", "initializeWithSession",
                "Initialize", "ListTools", "CallTool", "tryAlternativeEndpoints",
                "done", "crashed" }
    /\ idx \in 0..6
    /\ nextID \in 0..4
    /\ Len(reqs) <= 17

\* ------------------------------------------------------------------------
\* Properties
\* ------------------------------------------------------------------------

\* the last request of the call was of kind k and the gateway answered it
\* with HTTP 200
Answered200(k) ==
    /\ Len(reqs) > 0
    /\ reqs[Len(reqs)].kind = k
    /\ lastResp.err = ""
    /\ lastResp.status = 200

FlowKinds == { "session", "initSession", "rpc" }

\* C1: the stages run in the order direct API, protocol flow, GET probe. A
\* protocol-flow request (session, /initialize, JSON-RPC) is only issued after
\* the six direct-API endpoints have been requested, in their order, and the
\* direct stage has failed; a GET probe is only issued after the protocol flow
\* has sent its requests and failed, and no flow request follows a GET probe.
C1_StageOrder ==
    \A j \in 1..Len(reqs) :
        /\ reqs[j].kind = "direct" => j <= Len(directEndpoints)
        /\ reqs[j].kind \in FlowKinds \cup { "get" } =>
              /\ j > Len(directEndpoints)
              /\ \A i \in 1..Len(directEndpoints) :
                    reqs[i].kind = "direct" /\ reqs[i].path = directEndpoints[i]
              /\ stages.direct.kind = "err"
        /\ reqs[j].kind = "get" =>
              /\ stages.mcp.kind = "err"
              /\ \E i \in 1..(j - 1) : reqs[i].kind = "rpc"
              /\ \A i \in j..Len(reqs) : reqs[i].kind = "get"

\* a GET probe has been issued after a protocol flow that got as far as
\* tools/call
C1_Witness ==
    /\ Len(reqs) > 0
    /\ reqs[Len(reqs)].kind = "get"
    /\ \E i \in 1..Len(reqs) :
          reqs[i].kind = "rpc" /\ reqs[i].body.o["method"] = JStr("tools/call")

\* C2: GatherInformation returns on the first success. Once a direct-API
\* endpoint or a GET endpoint has answered HTTP 200, or tryMCPFlow has
\* succeeded, the call has returned a string and issues no further request
\* (the next step, if any, is a new call of AIFunction with an empty log).
C2_ShortCircuit ==
    [][ (Answered200("direct") \/ Answered200("get") \/ stages.mcp.kind = "ok") =>
            /\ pc = "done"
            /\ outcome.kind = "ok"
            /\ reqs' = <<>> ]_vars

\* the second direct-API endpoint answered HTTP 200 and the call returned
C2_Witness ==
    /\ Answered200("direct")
    /\ Len(reqs) = 2
    /\ pc = "done"

\* whether value v is an object holding a non-empty string under one of the
\* seven recognized fields
Recognized(v) ==
    /\ v.t = "obj"
    /\ \E i \in 1..Len(textFields) :
          Has(v, textFields[i]) /\ v.o[textFields[i]].t = "str" /\ v.o[textFields[i]].s # ""

\* the value of the recognized field that comes first in the priority order
RecognizedValue(v) ==
    LET i == CHOOSE k \in 1..Len(textFields) :
                 /\ Has(v, textFields[k])
                 /\ v.o[textFields[k]] \in { JStr(x) : x \in { "Sunny, 72F", "A1", "T1", "late",
                                                                "R1", "C1", "O1", "P1" } }
                 /\ \A j \in 1..(k - 1) :
                       ~(Has(v, textFields[j]) /\ v.o[textFields[j]].t = "str"
                                              /\ v.o[textFields[j]].s # "")
    IN  v.o[textFields[i]].s

\* the gateway's last answer, parsed as JSON
LastJson == Unmarshal(lastResp.body)

\* C3 as stated: whenever a direct-API, JSON-RPC or GET endpoint answers HTTP
\* 200 with a body holding a recognized text field, GatherInformation returns
\* that field's value.
C3_AnyEndpointReturnsField ==
    \A k \in { "direct", "rpc", "get" } :
        (Answered200(k) /\ LastJson.ok /\ Recognized(LastJson.v)) =>
            /\ pc = "done"
            /\ outcome = Ok(RecognizedValue(LastJson.v))

\* the last request was tools/call and the gateway answered HTTP 200 with an
\* envelope that carries no error object
ToolCallAnswered ==
    /\ Answered200("rpc")
    /\ reqs[Len(reqs)].body.o["method"] = JStr("tools/call")
    /\ LastJson.ok
    /\ LastJson.v.t = "obj"
    /\ ~Has(LastJson.v, "error")
    /\ Has(LastJson.v, "id") => LastJson.v.o["id"].t = "num"
    /\ Has(LastJson.v, "jsonrpc") => LastJson.v.o["jsonrpc"].t = "str"

\* C3 as amended: when a direct-API endpoint answers HTTP 200 with a body that
\* is a JSON object holding a non-empty string under a recognized field, or
\* tools/call answers HTTP 200 with an envelope without error object whose
\* result is such an object, GatherInformation returns the value of the first
\* such field in the order text, response, answer, result, output, message,
\* content.
C3_DirectOrToolReturnsField ==
    /\ (Answered200("direct") /\ LastJson.ok /\ Recognized(LastJson.v)) =>
          /\ pc = "done"
          /\ outcome = Ok(RecognizedValue(LastJson.v))
    /\ (ToolCallAnswered /\ Has(LastJson.v, "result")
                         /\ Recognized(LastJson.v.o["result"])) =>
          /\ pc = "done"
          /\ outcome = Ok(RecognizedValue(LastJson.v.o["result"]))

\* a direct-API endpoint answered a body with two recognized fields and the
\* call returned the one that comes first in the priority order
C3_Witness ==
    /\ Answered200("direct")
    /\ lastResp.body = Compact(JObj("answer" :> JStr("A1") @@ "text" :> JStr("T1")))
    /\ outcome = Ok("T1")

\* the tools/list request was answered HTTP 200 with an envelope without
\* error object whose result holds a "tools" sequence
ToolsListed ==
    /\ Answered200("rpc")
    /\ reqs[Len(reqs)].body.o["method"] = JStr("tools/list")
    /\ LastJson.ok
    /\ LastJson.v.t = "obj"
    /\ ~Has(LastJson.v, "error")
    /\ Has(LastJson.v, "result")
    /\ Has(LastJson.v.o["result"], "tools")
    /\ LastJson.v.o["result"].o["tools"].t = "arr"

ListedTools == LastJson.v.o["result"].o["tools"].a

\* whether a tool descriptor has a usable name
Usable(tool) == Has(tool, "name") /\ tool.o["name"].t = "str"

\* the last JSON-RPC request failed: a transport error, a status other than
\* 200, or an envelope with an error object
RpcFailed ==
    /\ Len(reqs) > 0
    /\ reqs[Len(reqs)].kind = "rpc"
    /\ \/ lastResp.err # ""
       \/ lastResp.status # 200
       \/ LastJson.ok /\ Has(LastJson.v, "error") /\ LastJson.v.o["error"].t = "obj"

\* C4: tryMCPFlow returns an error, and GatherInformation goes on to the GET
\* probe, whenever tools/list returns no tool, whenever the first tool
\* descriptor has no usable name, and whenever initialize, tools/list or
\* tools/call fails.
C4_FlowFailsWithError ==
    ( \/ ToolsListed /\ Len(ListedTools) = 0
      \/ ToolsListed /\ Len(ListedTools) > 0 /\ ~Usable(ListedTools[1])
      \/ RpcFailed ) =>
        /\ stages.mcp.kind = "err"
        /\ pc = "tryAlternativeEndpoints"

\* the headers of the requests issued once a token is negotiated
SentWithToken(i) ==
    /\ reqs[i].kind \in { "rpc", "get" }
    /\ sessionID # ""

\* C5: every request issued after the session token is set (the JSON-RPC
\* requests and the GET probes) carries that token in both X-Session-ID and
\* Session-ID.
C5_BothHeadersOnAllRequests ==
    \A i \in 1..Len(reqs) :
        SentWithToken(i) =>
            /\ reqs[i].XSessionID = sessionID
            /\ reqs[i].SessionID = sessionID

\* the JSON-RPC requests among the first j requests of the call
RpcCount(j) == Cardinality({ i \in 1..j : reqs[i].kind = "rpc" })

\* C6: request ids start at 1 for the client of the call and are strictly
\* increasing: the n-th JSON-RPC request of a client carries id n, whatever
\* the answers to the earlier ones were, so no id is used twice.
C6_IdsIncreaseFromOne ==
    /\ \A j \in 1..Len(reqs) :
          reqs[j].kind = "rpc" => reqs[j].body.o["id"] = JNum(RpcCount(j))
    /\ \A i, j \in 1..Len(reqs) :
          (i < j /\ reqs[i].kind = "rpc" /\ reqs[j].kind = "rpc") =>
              reqs[i].body.o["id"].n < reqs[j].body.o["id"].n
    /\ constructed => nextID = RpcCount(Len(reqs)) + 1

\* a call has sent initialize, tools/list and tools/call, and tools/call failed
C6_Witness ==
    /\ RpcCount(Len(reqs)) = 3
    /\ stages.mcp.kind = "err"

\* how often the call has entered CreateSession (each entry starts with a
\* request to the first session endpoint)
SessionRuns ==
    Cardinality({ i \in 1..Len(reqs) :
                    reqs[i].kind = "session" /\ reqs[i].path = sessionEndpoints[1] })

NegotiationStarted == \E i \in 1..Len(reqs) : reqs[i].kind \in { "session", "initSession" }

\* C7: a client negotiates its session token at most once. CreateSession is
\* entered at most once per call, the token is empty until negotiation has
\* started, and once the token is non-empty no later step of the same client
\* (any step but a new call of AIFunction, which builds a new client) changes
\* it.
C7_NegotiatedOnce ==
    [][ /\ SessionRuns' <= 1
        /\ ~NegotiationStarted' => sessionID' = ""
        /\ (sessionID # "" /\ reqs' # <<>>) => sessionID' = sessionID ]_vars

\* a call ended in the GET-probe stage with the token it negotiated
C7_Witness ==
    /\ sessionID # ""
    /\ pc = "done"
    /\ reqs[Len(reqs)].kind = "get"
    /\ SessionRuns = 1

\* C8: a call of AIFunction with an empty prompt or an empty model returns a
\* configuration error at once: no client is constructed, no strategy is
\* started and no request is issued.
C8_EmptyArgumentRejected ==
    (pc # "idle" /\ (prompt = "" \/ model = "")) =>
        /\ pc = "done"
        /\ outcome \in { Err("prompt cannot be empty"), Err("model cannot be empty") }
        /\ prompt = "" => outcome = Err("prompt cannot be empty")
        /\ ~constructed
        /\ stages = NoStages
        /\ reqs = <<>>
        /\ lastResp = NoResp

\* AIFunction has been called with a prompt and an empty model
C8_Witness ==
    /\ pc = "done"
    /\ prompt # ""
    /\ model = ""
    /\ outcome = Err("model cannot be empty")

AllStagesFailed == \A st \in { "direct", "mcp", "alt" } : stages[st].kind = "err"

\* the call of GatherInformation has ended without a result
CallFailed ==
    /\ constructed
    /\ pc \in { "done", "crashed" }
    /\ outcome.kind # "ok"

\* C9: GatherInformation fails if and only if all three strategies have been
\* exhausted without success, and what the caller then gets is the error "all
\* approaches failed", never the error of one endpoint attempt or strategy.
C9_FailsOnlyWhenExhausted ==
    /\ CallFailed => AllStagesFailed /\ outcome = Err("all approaches failed")
    /\ AllStagesFailed => CallFailed

\* the parsed body is what json.Unmarshal accepts for a map: an object or null
IsMapJson(p) == p.ok /\ p.v.t \in { "obj", "null" }

\* C10 as stated: every HTTP 200 of a direct-API endpoint is a success; when
\* the body parses as a JSON object the result is the Text Extractor's output
\* for it, and when the body is no JSON the result is the body.
C10_ExtractorOrRawBody ==
    Answered200("direct") =>
        /\ pc = "done"
        /\ outcome.kind = "ok"
        /\ (LastJson.ok /\ LastJson.v.t = "obj") =>
              outcome.val = extractTextFromResult(LastJson.v)
        /\ ~LastJson.ok => outcome.val = lastResp.body

\* C10 as amended: every HTTP 200 of a direct-API endpoint is a success; the
\* result is the Text Extractor's output when the body parses as a JSON object
\* (or null) and that output is not empty, and the raw body in every other
\* case: a body that is no JSON, a JSON value that is no object (an array, a
\* string, a number), or an object for which the extractor yields "".
C10_ExtractorUnlessEmpty ==
    Answered200("direct") =>
        /\ pc = "done"
        /\ outcome.kind = "ok"
        /\ outcome.val =
              IF IsMapJson(LastJson) /\ extractTextFromResult(LastJson.v) # ""
              THEN extractTextFromResult(LastJson.v)
              ELSE lastResp.body

\* a direct-API endpoint answered a JSON array and the call returned the body
C10_Witness ==
    /\ Answered200("direct")
    /\ lastResp.body = Compact(JArr(<< JNum(1) >>))
    /\ outcome = Ok(lastResp.body)
    /\ outcome.val # extractTextFromResult(LastJson.v)

\* ------------------------------------------------------------------------
\* The text extractor (ExtractSpec)
\* ------------------------------------------------------------------------

\* v is structured and holds a non-empty string under k
HoldsText(v, k) == Has(v, k) /\ v.o[k].t = "str" /\ v.o[k].s # ""

\* v is structured and "content" holds a non-empty sequence whose first
\* element is structured with a string under "text"
HoldsNestedText(v) ==
    /\ Has(v, "content")
    /\ v.o["content"].t = "arr"
    /\ v.o["content"].a # <<>>
    /\ Has(Head(v.o["content"].a), "text")
    /\ Head(v.o["content"].a).o["text"].t = "str"

\* v holds a non-empty string under none of the seven keys
NoTextField(v) ==
    \A k \in { "text", "response", "answer", "result", "output", "message", "content" } :
        ~HoldsText(v, k)

\* what the extractor is to return for a structured value
PriorityText(v) ==
    CASE HoldsText(v, "text") -> v.o["text"].s
      [] ~HoldsText(v, "text") /\ HoldsText(v, "response") -> v.o["response"].s
      [] (\A k \in { "text", "response" } : ~HoldsText(v, k))
         /\ HoldsText(v, "answer") -> v.o["answer"].s
      [] (\A k \in { "text", "response", "answer" } : ~HoldsText(v, k))
         /\ HoldsText(v, "result") -> v.o["result"].s
      [] (\A k \in { "text", "response", "answer", "result" } : ~HoldsText(v, k))
         /\ HoldsText(v, "output") -> v.o["output"].s
      [] (\A k \in { "text", "response", "answer", "result", "output" } :
             ~HoldsText(v, k))
         /\ HoldsText(v, "message") -> v.o["message"].s
      [] (\A k \in { "text", "response", "answer", "result", "output", "message" } :
             ~HoldsText(v, k))
         /\ HoldsText(v, "content") -> v.o["content"].s
      [] NoTextField(v) /\ HoldsNestedText(v) -> Head(v.o["content"].a).o["text"].s
      [] NoTextField(v) /\ ~HoldsNestedText(v) -> MarshalIndent(v)

\* C11: for a structured value the extractor returns the non-empty string
\* under the first of text, response, answer, result, output, message,
\* content; with none of them, the "text" string of the first element of a
\* non-empty "content" sequence; otherwise the indented JSON of the value.
C11_PriorityThenNestedThenJson ==
    (extractRet # None /\ extractArg.t = "obj")
        => extractRet = Ok(PriorityText(extractArg))

\* a value with two non-empty string fields was extracted (the one earlier in
\* the order wins), and so was one with only a nested text
C11_Witness ==
    /\ extractRet # None
    /\ extractArg.t = "obj"
    /\ \/ /\ HoldsText(extractArg, "text")
          /\ HoldsText(extractArg, "response")
          /\ extractArg.o["text"].s # extractArg.o["response"].s
          /\ extractRet.val = extractArg.o["text"].s
       \/ /\ NoTextField(extractArg)
          /\ HoldsNestedText(extractArg)
          /\ Has(extractArg, "foo")
          /\ extractRet.val = "Rainy"

\* the indented JSON of the values that are no objects, and of the objects
\* without a field the extractor knows, as encoding/json prints them
IndentedJson(v) ==
    CASE v = JNull -> "null"
      [] v = JNum(7) -> "7"
      [] v = JStr("plain") -> "\"plain\""
      [] v = JBool(TRUE) -> "true"
      [] v = JBool(FALSE) -> "false"
      [] v = JArr(<<>>) -> "[]"
      [] v = JArr(<< JNum(1) >>) -> "[\n  1\n]"
      [] v = JArr(<< JObj("text" :> JStr("Rainy")) >>)
            -> "[\n  {\n    \"text\": \"Rainy\"\n  }\n]"
      [] v = EmptyObj -> "{}"
      [] v = JObj("foo" :> JNum(5)) -> "{\n  \"foo\": 5\n}"
      [] v = JObj("foo" :> JStr("") @@ "text" :> JNum(5))
            -> "{\n  \"foo\": \"\",\n  \"text\": 5\n}"
      [] OTHER -> MarshalIndent(v)

\* C12: the extractor is total: every decoded value, structured or not, gets
\* a string, and a value without a recognizable field gets its indented JSON.
C12_TotalWithJsonFallback ==
    extractRet # None
        => /\ extractRet.kind = "ok"
           /\ extractRet.val \in STRING
           /\ (NoTextField(extractArg) /\ ~HoldsNestedText(extractArg))
                  => extractRet.val = IndentedJson(extractArg)

\* a value that is no object was extracted, and came back as its JSON
C12_Witness ==
    /\ extractRet # None
    /\ extractArg = JArr(<< JObj("text" :> JStr("Rainy")) >>)
    /\ extractRet.val = "[\n  {\n    \"text\": \"Rainy\"\n  }\n]"

\* ------------------------------------------------------------------------
\* The protocol flow (Spec)
\* ------------------------------------------------------------------------

\* what the extractor is to return for any decoded value
ExtractorOutput(v) == IF v.t = "obj" THEN PriorityText(v) ELSE IndentedJson(v)

\* the last request is a JSON-RPC request of the given method
LastRpc(method) ==
    /\ Len(reqs) > 0
    /\ reqs[Len(reqs)].kind = "rpc"
    /\ reqs[Len(reqs)].body.o["method"] = JStr(method)

\* the result of the envelope last received (null when it has none)
LastResult ==
    IF Has(LastJson.v, "result") THEN LastJson.v.o["result"] ELSE JNull

\* C13: tryMCPFlow invokes the first tool of the sequence tools/list
\* returned: the tools/call request carries that tool's name and the
\* arguments {prompt, model}, a tools/call request is sent from nowhere else,
\* and when tools/call is answered the flow's result is the extractor's
\* output for its result.
C13_FirstToolInvoked ==
    [][ /\ (pc = "CallTool" /\ reqs' # reqs) =>
              /\ ToolsListed
              /\ ListedTools # <<>>
              /\ Usable(Head(ListedTools))
              /\ LastRpc("tools/call")'
              /\ reqs' = Append(reqs, reqs'[Len(reqs')])
              /\ reqs'[Len(reqs')].body.o["params"] =
                    JObj("name" :> Head(ListedTools).o["name"]
                         @@ "arguments" :> JObj("prompt" :> JStr(prompt)
                                                @@ "model" :> JStr(model)))
              /\ ToolCallAnswered' =>
                    /\ pc' = "done"
                    /\ outcome' = Ok(ExtractorOutput(LastResult'))
                    /\ LastResult' = NestedObj => outcome' = Ok("Rainy")
        /\ (reqs' # reqs /\ LastRpc("tools/call")') => pc = "CallTool"
      ]_vars

\* a tools/call for the tool "search" with the caller's prompt and model was
\* answered with a nested text, and that text is what the caller got
C13_Witness ==
    /\ LastRpc("tools/call")
    /\ reqs[Len(reqs)].body.o["params"].o["name"] = JStr("search")
    /\ reqs[Len(reqs)].body.o["params"].o["arguments"]
          = JObj("prompt" :> JStr("weather in NY") @@ "model" :> JStr("mistral"))
    /\ ToolCallAnswered
    /\ LastResult = NestedObj
    /\ outcome = Ok("Rainy")

\* ------------------------------------------------------------------------
\* Session negotiation (Spec)
\* ------------------------------------------------------------------------

SessionEndpointOrder == << "/session", "/api/session", "/sessions", "/create-session" >>

\* the answer r to a session endpoint is one whose sources are looked at
SessionAccepted(r) == r.err = "" /\ r.status \in { 200, 201 }

\* the body of r is a session response with a non-empty sessionId
BodyToken(r) ==
    /\ Unmarshal(r.body).ok
    /\ Has(Unmarshal(r.body).v, "sessionId")
    /\ Unmarshal(r.body).v.o["sessionId"].t = "str"
    /\ Unmarshal(r.body).v.o["sessionId"].s # ""

SessionCookieName(c) == c.Name \in { "session_id", "sessionId" }

\* the three sources of r, in their order, as << matched, token >> pairs
SessionSources(r) ==
    << IF BodyToken(r)
       THEN << TRUE, Unmarshal(r.body).v.o["sessionId"].s >>
       ELSE << FALSE, "" >>,
       << r.xsid # "", r.xsid >>,
       IF \E i \in 1..Len(r.cookies) : SessionCookieName(r.cookies[i])
       THEN << TRUE,
               r.cookies[CHOOSE i \in 1..Len(r.cookies) :
                            /\ SessionCookieName(r.cookies[i])
                            /\ \A j \in 1..(i - 1) : ~SessionCookieName(r.cookies[j])].Value >>
       ELSE << FALSE, "" >> >>

\* some source of r matches
SessionMatched(src) == \E i \in 1..3 : src[i][1]

\* the token of the first source that matches
FirstSourceToken(src) ==
    src[CHOOSE i \in 1..3 : src[i][1] /\ \A j \in 1..(i - 1) : ~src[j][1]][2]

\* C14: the session endpoints are tried in the order /session, /api/session,
\* /sessions, /create-session; a transport error or a status other than
\* 200/201 (or an answer without any source) moves on to the next endpoint; on
\* 200/201 the token is that of the first matching source in the order body
\* sessionId, X-Session-ID header, session cookie, and after a match neither
\* another session endpoint nor /initialize is requested.
C14_EndpointAndSourceOrder ==
    [][ /\ pc = "CreateSession" =>
              /\ reqs' = Append(reqs, reqs'[Len(reqs')])
              /\ reqs'[Len(reqs')].kind = "session"
              /\ reqs'[Len(reqs')].path = SessionEndpointOrder[idx]
              /\ idx = 1 \/ (reqs[Len(reqs)].kind = "session"
                              /\ reqs[Len(reqs)].path = SessionEndpointOrder[idx - 1])
              /\ \E src \in { IF SessionAccepted(lastResp')
                               THEN SessionSources(lastResp')
                               ELSE << << FALSE, "" >>, << FALSE, "" >>, << FALSE, "" >> >> } :
                    IF SessionMatched(src)
                    THEN /\ sessionID' = FirstSourceToken(src)
                         /\ pc' = "Initialize"
                    ELSE /\ sessionID' = sessionID
                         /\ IF idx < 4
                            THEN pc' = "CreateSession" /\ idx' = idx + 1
                            ELSE pc' = "initializeWithSession"
        /\ pc' = "CreateSession" => pc \in { "tryDirectAPI", "CreateSession" }
        /\ pc' = "initializeWithSession" => pc = "CreateSession"
        /\ (reqs' # reqs /\ reqs' # <<>> /\ reqs'[Len(reqs')].kind = "session")
              => pc = "CreateSession"
        /\ (reqs' # reqs /\ reqs' # <<>> /\ reqs'[Len(reqs')].kind = "initSession")
              => pc = "initializeWithSession"
      ]_vars

\* the first endpoint gave nothing, the second answered with a header and a
\* cookie but no sessionId in its body: the header won and the flow went on
\* to Initialize
C14_Witness ==
    /\ pc = "Initialize"
    /\ Len(reqs) = Len(directEndpoints) + 2
    /\ reqs[Len(reqs)].kind = "session"
    /\ reqs[Len(reqs)].path = "/api/session"
    /\ SessionAccepted(lastResp)
    /\ ~BodyToken(lastResp)
    /\ lastResp.xsid = "s2"
    /\ lastResp.cookies # <<>>
    /\ SessionCookieName(lastResp.cookies[1])
    /\ lastResp.cookies[1].Value = "s3"
    /\ sessionID = "s2"

\* session negotiation has returned an error
SessionFailed == sessionErr \notin { "none", "" }

\* the paths of the session and /initialize requests sent so far, in order
RECURSIVE NegotiationPaths(_)
NegotiationPaths(n) ==
    IF n = 0 THEN <<>>
    ELSE IF reqs[n].kind \in { "session", "initSession" }
         THEN Append(NegotiationPaths(n - 1), reqs[n].path)
         ELSE NegotiationPaths(n - 1)

\* the four session endpoints and /initialize have each been requested
AllNegotiationAttempted ==
    NegotiationPaths(Len(reqs)) = Append(SessionEndpointOrder, "/initialize")

\* C15: session negotiation reports failure only after the four
\* session endpoints and /initialize have each been attempted without a token,
\* and the failure reported is that no session could be established.
C15_FailureIsNoSession ==
    SessionFailed =>
        /\ AllNegotiationAttempted
        /\ sessionID = ""
        /\ sessionErr = "could not establish session"

\* C16: a failed session negotiation does not end the protocol flow: the
\* step after it is Initialize, which sends the JSON-RPC "initialize" request
\* without session headers, and an accepted answer takes the flow on to
\* tools/list.
C16_FlowGoesOnWithoutSession ==
    [][ /\ SessionFailed' => pc' \in { "Initialize", "ListTools", "CallTool",
                                        "tryAlternativeEndpoints", "done", "crashed" }
        /\ (~SessionFailed /\ SessionFailed') => pc' = "Initialize"
        /\ (SessionFailed /\ pc = "Initialize") =>
              /\ LastRpc("initialize")'
              /\ reqs' = Append(reqs, reqs'[Len(reqs')])
              /\ reqs'[Len(reqs')].XSessionID = ""
              /\ reqs'[Len(reqs')].SessionID = ""
              /\ reqs'[Len(reqs')].body.o["params"] = initParams
              /\ (Answered200("rpc")' /\ LastJson'.ok /\ LastJson'.v.t = "obj"
                     /\ DOMAIN LastJson'.v.o = { "jsonrpc", "id", "result" })
                    => pc' = "ListTools"
      ]_vars

\* with no session established, initialize, tools/list and tools/call were
\* sent without session headers and the call returned the tool's text
C16_Witness ==
    /\ SessionFailed
    /\ sessionID = ""
    /\ pc = "done"
    /\ outcome = Ok("Rainy")
    /\ LastRpc("tools/call")
    /\ Len(reqs) = Len(directEndpoints) + 5 + 3
    /\ \A i \in 1..Len(reqs) : reqs[i].XSessionID = "" /\ reqs[i].SessionID = ""

\* the methods of the JSON-RPC requests sent so far, in order
RECURSIVE RpcMethods(_)
RpcMethods(n) ==
    IF n = 0 THEN <<>>
    ELSE IF reqs[n].kind = "rpc"
         THEN Append(RpcMethods(n - 1), reqs[n].body.o["method"].s)
         ELSE RpcMethods(n - 1)

\* the last answer is an HTTP 200 whose body is a JSON object without an
\* error object
EnvelopeWithoutError ==
    /\ lastResp.err = ""
    /\ lastResp.status = 200
    /\ LastJson.ok
    /\ LastJson.v.t = "obj"
    /\ Has(LastJson.v, "error") => LastJson.v.o["error"] = JNull

\* the last answer is a failure of its JSON-RPC step: no answer, a status
\* other than 200, a body that is no JSON, an error object, or, for tools/list,
\* a result without "tools"
StepFailed ==
    \/ lastResp.err # ""
    \/ lastResp.status # 200
    \/ ~LastJson.ok
    \/ LastJson.v.t = "obj" /\ Has(LastJson.v, "error") /\ LastJson.v.o["error"].t = "obj"
    \/ /\ LastRpc("tools/list")
       /\ ~(Has(LastJson.v, "result") /\ Has(LastJson.v.o["result"], "tools"))

\* C17: the JSON-RPC steps are sequenced and abort on the first failure.
\* The methods sent are a prefix of initialize, tools/list, tools/call;
\* tools/list is only sent after initialize got HTTP 200 with an envelope
\* without error object, tools/call only after tools/list got HTTP 200 without
\* error object and with a non-empty "tools" sequence; after a step that
\* failed no JSON-RPC request follows.
C17_StepsSequenced ==
    /\ [](\E n \in 0..3 :
             RpcMethods(Len(reqs)) = SubSeq(<< "initialize", "tools/list", "tools/call" >>, 1, n))
    /\ []((Len(reqs) > 0 /\ reqs[Len(reqs)].kind = "rpc" /\ StepFailed)
             => pc = "tryAlternativeEndpoints")
    /\ [][ /\ (reqs' # reqs /\ LastRpc("tools/list")') =>
                 /\ LastRpc("initialize")
                 /\ EnvelopeWithoutError
           /\ (reqs' # reqs /\ LastRpc("tools/call")') =>
                 /\ LastRpc("tools/list")
                 /\ EnvelopeWithoutError
                 /\ Has(LastJson.v, "result")
                 /\ Has(LastJson.v.o["result"], "tools")
                 /\ LastJson.v.o["result"].o["tools"].t = "arr"
                 /\ LastJson.v.o["result"].o["tools"].a # <<>>
           /\ (reqs' # reqs /\ reqs' # <<>> /\ reqs'[Len(reqs')].kind = "rpc") =>
                 \/ reqs = <<>>
                 \/ reqs[Len(reqs)].kind # "rpc"
                 \/ ~StepFailed
          ]_vars

\* tools/list was answered with HTTP 200 and a result without "tools": the
\* flow ended after two JSON-RPC requests and the GET probe is next
C17_Witness ==
    /\ LastRpc("tools/list")
    /\ EnvelopeWithoutError
    /\ Has(LastJson.v, "result")
    /\ ~Has(LastJson.v.o["result"], "tools")
    /\ RpcMethods(Len(reqs)) = << "initialize", "tools/list" >>
    /\ stages.mcp.kind = "err"
    /\ pc = "tryAlternativeEndpoints"

\* ------------------------------------------------------------------------
\* The whole call (Spec)
\* ------------------------------------------------------------------------

\* how many requests of kind k have been sent
Sent(k) == Cardinality({ i \in 1..Len(reqs) : reqs[i].kind = k })

\* no request is repeated, and no stage sends more than its candidates
NoRetries ==
    /\ \A i, j \in 1..Len(reqs) :
          (i # j /\ reqs[i].kind = reqs[j].kind) =>
              /\ reqs[i].path # reqs[j].path \/ reqs[i].kind = "rpc"
              /\ reqs[i].body # reqs[j].body \/ reqs[i].kind # "rpc"
    /\ Sent("direct") <= 6
    /\ Sent("session") <= 4
    /\ Sent("initSession") <= 1
    /\ Sent("rpc") <= 3
    /\ Sent("get") <= 3
    /\ Len(reqs) <= 17

\* the call is over: no request is outstanding and none will be sent
CallOver == constructed /\ ~ENABLED (tryDirectAPI \/ CreateSession \/ initializeWithSession
                                      \/ Initialize \/ ListTools \/ CallTool
                                      \/ tryAlternativeEndpoints)

\* C18: there are no retries: each candidate URL of each stage is requested
\* at most once, a call sends at most 17 requests (6 direct, 4 session and 1
\* /initialize, 3 JSON-RPC, 3 GET), and when no request is left the call has
\* ended with a string or with an error.
C18_BoundedAndEndsWithResult ==
    /\ NoRetries
    /\ CallOver => (pc = "done" /\ outcome.kind \in { "ok", "err" })

\* C19: whenever session negotiation reports success the client's token is
\* non-empty, whichever source it came from, so every JSON-RPC request sent
\* after it carries the session headers.
C19_SuccessMeansToken ==
    sessionErr = "" =>
        /\ sessionID # ""
        /\ \A i \in 1..Len(reqs) :
              reqs[i].kind = "rpc" =>
                  reqs[i].XSessionID # "" /\ reqs[i].SessionID # ""

\* the steps that send a direct-API, session, /initialize or GET request
NoRpcStep ==
    pc \in { "tryDirectAPI", "CreateSession", "initializeWithSession",
             "tryAlternativeEndpoints" }

\* C20: in a call on a fresh client no direct-API request carries a session
\* header, the token being empty during the whole direct-API stage, which
\* comes before any negotiation; and the direct-API, session-endpoint,
\* /initialize and GET requests leave the request-id counter as it is.
C20_DirectStageWithoutSession ==
    /\ [](\A i \in 1..Len(reqs) :
             reqs[i].kind = "direct" =>
                 /\ reqs[i].XSessionID = ""
                 /\ reqs[i].SessionID = ""
                 /\ \A j \in 1..i : reqs[j].kind = "direct")
    /\ [](pc = "tryDirectAPI" => sessionID = "" /\ nextID = 1)
    /\ [][ NoRpcStep => (nextID' = nextID /\ Len(reqs') = Len(reqs) + 1) ]_vars

\* a call that got a token, sent its three JSON-RPC requests and a GET probe:
\* the counter stands at 4 and the six direct requests are without headers
C20_Witness ==
    /\ sessionID # ""
    /\ nextID = 4
    /\ Sent("direct") = 6
    /\ Sent("rpc") = 3
    /\ Sent("get") >= 1
    /\ \A i \in 1..6 : reqs[i].XSessionID = "" /\ reqs[i].SessionID = ""

====
